---- MODULE Spec2Model ----
(***************************************************************************)
(* Game lifecycle views of quizio-backend (ai_quiz/views/games.py):        *)
(* CreateGameView.post, StartGameView.post and EndGameView.post over the    *)
(* Room / Participant / Game tables.                                       *)
(*                                                                         *)
(* Spec     : requests are served one after the other.                     *)
(* ConcSpec : two StartGame requests run line by line, interleaved.        *)
(***************************************************************************)
EXTENDS Integers, Sequences, FiniteSets, TLC

\* ---------------------------------------------------------------- bounds
MaxGames == 2
MaxParticipants == 1

\* ------------------------------------------------------------ value sets
Users == {"alice", "bob"}
RoomCodes == {"R1", "R2"}
UnknownCode == "ZZ"
NoCode == ""
RequestCodes == RoomCodes \cup {UnknownCode, NoCode}
RoomStatuses == {"active", "closed"}
GameStatuses == {"waiting", "in_progress", "ended"}
ParticipantStatuses == {"ready", "joined"}
Procs == {1, 2}
None == "None"

SeqsUpTo(S, n) == UNION {[1..k -> S] : k \in 0..n}

VARIABLES
    rooms,         \* Room table: room_code -> [host, status]
    participants,  \* Participant table: sequence of [room, status]
    games,         \* Game table: id -> [room, status, leaderboards]
    req,           \* the request served last
    resp,          \* the response to it
    prev,          \* the tables as they were when that request arrived
    pc,            \* ConcSpec: position of each StartGame request
    loc,           \* ConcSpec: locals of each StartGame request
    cresp          \* ConcSpec: response of each StartGame request

vars == <<rooms, participants, games, req, resp, prev, pc, loc, cresp>>

DB == [rooms |-> rooms, participants |-> participants, games |-> games]

\* ------------------------------------------------------------- responses
Resp(status, gameId, error) == [status |-> status, gameId |-> gameId, error |-> error]
NoResp == Resp(0, 0, "none")
NoReq == [op |-> "none", user |-> "alice", roomCode |-> NoCode,
          topic |-> FALSE, subtopics |-> FALSE, gameId |-> 0]

\* ------------------------------------------------------------ ORM reads
\* Room.objects.get(room_code=room_code); None stands for Room.DoesNotExist
RoomGet(rs, room_code) == IF room_code \in DOMAIN rs THEN room_code ELSE None

\* CreateGameView.validate_room
validate_room(rs, room_code) ==
    IF room_code \in DOMAIN rs /\ rs[room_code].status = "active"
    THEN room_code ELSE None

\* CreateGameView.validate_user
validate_user(rs, room, user) == user = rs[room].host

GamesOf(gs, room, status) ==
    {g \in 1..Len(gs) : gs[g].room = room /\ gs[g].status = status}

\* CreateGameView.validate_game: Game.objects.aget(...) is not awaited, so the
\* value returned is the coroutine object, whatever the table holds, and
\* Game.DoesNotExist is never raised inside the try.
\* (NoGame is the None of the except branch.)
NoGame == [type |-> "None", id |-> 0]
Coroutine == [type |-> "coroutine", id |-> 0]
validate_game(gs, room) == Coroutine

\* CreateGameView.create_game: Game.objects.acreate(room=room, status="waiting");
\* the questions it then attaches to the game are not part of the game row.
create_game(gs, room) ==
    Append(gs, [room |-> room, status |-> "waiting", leaderboards |-> 0])

\* room.participants.exclude(status="ready").exists()
HasUnready_Filter(ps, room) ==
    \E i \in 1..Len(ps) : ps[i].room = room /\ ps[i].status = "ready"
HasUnready(ps, room) ==
    \E i \in 1..Len(ps) : ps[i].room = room /\ ps[i].status # "ready"

\* game.status = status; game.save()
SaveGame_AllOfRoom(gs, g, status) ==
    [i \in 1..Len(gs) |->
        IF gs[i].room = gs[g].room THEN [gs[i] EXCEPT !.status = status] ELSE gs[i]]
SaveGame(gs, g, status) == [gs EXCEPT ![g].status = status]

\* ------------------------------------------ model methods (ai_quiz.models)
\* Room.get_waiting_game: a waiting game of the room, ValueError when none
WaitingGames(gs, room) == GamesOf(gs, room, "waiting")

\* Game.create_leaderboard
create_leaderboard(gs, g) == [gs EXCEPT ![g].leaderboards = @ + 1]

\* Room.end_game: ends the room's games in progress, ValueError when none
end_game(gs, room) ==
    IF GamesOf(gs, room, "in_progress") = {}
    THEN [raised |-> TRUE, games |-> gs]
    ELSE [raised |-> FALSE,
          games |-> [i \in 1..Len(gs) |->
                        IF gs[i].room = room /\ gs[i].status = "in_progress"
                        THEN [gs[i] EXCEPT !.status = "ended"] ELSE gs[i]]]

\* ----------------------------------------------------------------- views
\* CreateGameView.post
CreateGamePost(rs, gs, user, rq) ==
    IF ~rq.topic \/ ~rq.subtopics
    THEN [games |-> gs, resp |-> Resp(400, 0, "topic and subtopics are required")]
    ELSE IF rq.roomCode = NoCode
    THEN [games |-> gs, resp |-> Resp(400, 0, "roomCode is required")]
    ELSE LET room == validate_room(rs, rq.roomCode) IN
    IF room = None
    THEN [games |-> gs, resp |-> Resp(404, 0, "room not found or closed")]
    ELSE IF ~validate_user(rs, room, user)
    THEN [games |-> gs, resp |-> Resp(403, 0, "only the host")]
    ELSE LET game == validate_game(gs, room) IN
    IF game # NoGame
    THEN IF game.type = "Game"
         THEN [games |-> gs, resp |-> Resp(200, game.id, "none")]
         \* game.id on a coroutine object: AttributeError, answered 500
         ELSE [games |-> gs, resp |-> Resp(500, 0, "AttributeError")]
    ELSE LET created == create_game(gs, room) IN
         [games |-> created, resp |-> Resp(201, Len(created), "none")]

\* StartGameView.post; pick is the game get_waiting_game returns
StartGamePost_LeaderboardFirst(rs, ps, gs, user, roomCode, pick) ==
    IF roomCode = NoCode
    THEN [games |-> gs, resp |-> Resp(400, 0, "roomCode is required")]
    ELSE LET room == RoomGet(rs, roomCode) IN
    IF room = None
    THEN [games |-> gs, resp |-> Resp(404, 0, "room not found")]
    ELSE IF rs[room].host # user
    THEN [games |-> gs, resp |-> Resp(403, 0, "only the host")]
    ELSE IF WaitingGames(gs, room) = {}
    THEN [games |-> gs, resp |-> Resp(400, 0, "ValueError")]
    ELSE LET withBoard == create_leaderboard(gs, pick) IN
    IF HasUnready(ps, room)
    THEN [games |-> withBoard, resp |-> Resp(400, 0, "participants not ready")]
    ELSE [games |-> SaveGame(withBoard, pick, "in_progress"),
          resp |-> Resp(200, pick, "none")]
StartGamePost(rs, ps, gs, user, roomCode, pick) ==
    IF roomCode = NoCode
    THEN [games |-> gs, resp |-> Resp(400, 0, "roomCode is required")]
    ELSE LET room == RoomGet(rs, roomCode) IN
    IF room = None
    THEN [games |-> gs, resp |-> Resp(404, 0, "room not found")]
    ELSE IF rs[room].host # user
    THEN [games |-> gs, resp |-> Resp(403, 0, "only the host")]
    ELSE IF HasUnready(ps, room)
    THEN [games |-> gs, resp |-> Resp(400, 0, "participants not ready")]
    ELSE IF WaitingGames(gs, room) = {}
    THEN [games |-> gs, resp |-> Resp(400, 0, "ValueError")]
    ELSE [games |-> SaveGame(create_leaderboard(gs, pick), pick, "in_progress"),
          resp |-> Resp(200, pick, "none")]

\* the games get_waiting_game may return to a request that reaches line 198
StartChoices(rs, gs, roomCode) ==
    IF roomCode \in DOMAIN rs /\ WaitingGames(gs, roomCode) # {}
    THEN WaitingGames(gs, roomCode) ELSE {0}

\* EndGameView.post
EndGamePost_NoHostCheck(rs, gs, user, roomCode, gameId) ==
    IF roomCode = NoCode \/ gameId = 0
    THEN [games |-> gs, resp |-> Resp(400, 0, "roomCode and gameId required")]
    ELSE LET room == RoomGet(rs, roomCode) IN
    IF room = None
    THEN [games |-> gs, resp |-> Resp(404, 0, "room not found")]
    ELSE LET ended == end_game(gs, room) IN
    IF ended.raised
    THEN [games |-> gs, resp |-> Resp(400, 0, "ValueError")]
    ELSE [games |-> ended.games, resp |-> Resp(200, 0, "none")]
EndGamePost_NoEndCall(rs, gs, user, roomCode, gameId) ==
    IF roomCode = NoCode \/ gameId = 0
    THEN [games |-> gs, resp |-> Resp(400, 0, "roomCode and gameId required")]
    ELSE LET room == RoomGet(rs, roomCode) IN
    IF room = None
    THEN [games |-> gs, resp |-> Resp(404, 0, "room not found")]
    ELSE IF rs[room].host # user
    THEN [games |-> gs, resp |-> Resp(403, 0, "only the host")]
    ELSE [games |-> gs, resp |-> Resp(200, 0, "none")]
EndGamePost(rs, gs, user, roomCode, gameId) ==
    IF roomCode = NoCode \/ gameId = 0
    THEN [games |-> gs, resp |-> Resp(400, 0, "roomCode and gameId required")]
    ELSE LET room == RoomGet(rs, roomCode) IN
    IF room = None
    THEN [games |-> gs, resp |-> Resp(404, 0, "room not found")]
    ELSE IF rs[room].host # user
    THEN [games |-> gs, resp |-> Resp(403, 0, "only the host")]
    ELSE LET ended == end_game(gs, room) IN
    IF ended.raised
    THEN [games |-> gs, resp |-> Resp(400, 0, "ValueError")]
    ELSE [games |-> ended.games, resp |-> Resp(200, 0, "none")]

\* ------------------------------------------------------------------ Init
InitRooms ==
    {rs \in [RoomCodes -> [host : Users, status : RoomStatuses]] :
        rs["R1"].host = "alice" /\ rs["R2"].host = "bob"}
InitParticipants ==
    SeqsUpTo([room : RoomCodes, status : ParticipantStatuses], MaxParticipants)
InitGames ==
    {gs \in SeqsUpTo([room : RoomCodes, status : GameStatuses, leaderboards : {0, 1}],
                     MaxGames) :
        \A g \in 1..Len(gs) :
            gs[g].leaderboards = IF gs[g].status = "waiting" THEN 0 ELSE 1}

InitDB ==
    /\ rooms \in InitRooms
    /\ participants \in InitParticipants
    /\ games \in InitGames
    /\ prev = DB
    /\ req = NoReq
    /\ resp = NoResp
    /\ pc = [p \in Procs |-> "idle"]
    /\ loc = [p \in Procs |-> [room |-> None, game |-> 0, status |-> "none"]]
    /\ cresp = [p \in Procs |-> NoResp]

Init == InitDB

\* -------------------------------------------- Spec: one request at a time
Idle == req.op = "none"

CreateGame ==
    \E user \in Users, roomCode \in RequestCodes, topic \in BOOLEAN, subtopics \in BOOLEAN :
        LET rq == [op |-> "CreateGame", user |-> user, roomCode |-> roomCode,
                   topic |-> topic, subtopics |-> subtopics, gameId |-> 0]
            result == CreateGamePost(rooms, games, user, rq)
        IN /\ Idle
           /\ Len(result.games) <= MaxGames
           /\ games' = result.games
           /\ resp' = result.resp
           /\ req' = rq
           /\ prev' = DB
           /\ UNCHANGED <<rooms, participants, pc, loc, cresp>>

StartGame ==
    \E user \in Users, roomCode \in RequestCodes, pick \in 0..MaxGames :
        LET rq == [op |-> "StartGame", user |-> user, roomCode |-> roomCode,
                   topic |-> FALSE, subtopics |-> FALSE, gameId |-> 0]
            result == StartGamePost(rooms, participants, games, user, roomCode, pick)
        IN /\ Idle
           /\ pick \in StartChoices(rooms, games, roomCode)
           /\ games' = result.games
           /\ resp' = result.resp
           /\ req' = rq
           /\ prev' = DB
           /\ UNCHANGED <<rooms, participants, pc, loc, cresp>>

EndGame ==
    \E user \in Users, roomCode \in RequestCodes, gameId \in 0..1 :
        LET rq == [op |-> "EndGame", user |-> user, roomCode |-> roomCode,
                   topic |-> FALSE, subtopics |-> FALSE, gameId |-> gameId]
            result == EndGamePost(rooms, games, user, roomCode, gameId)
        IN /\ Idle
           /\ games' = result.games
           /\ resp' = result.resp
           /\ req' = rq
           /\ prev' = DB
           /\ UNCHANGED <<rooms, participants, pc, loc, cresp>>

\* return Response(...): the response leaves and the next request may arrive
Reply ==
    /\ ~Idle
    /\ req' = NoReq
    /\ resp' = NoResp
    /\ prev' = DB
    /\ UNCHANGED <<rooms, participants, games, pc, loc, cresp>>

Next == CreateGame \/ StartGame \/ EndGame \/ Reply

Spec == Init /\ [][Next]_vars

\* ------------------------- ConcSpec: two StartGame requests, line by line
Done(p, r) ==
    /\ pc' = [pc EXCEPT ![p] = "done"]
    /\ cresp' = [cresp EXCEPT ![p] = r]

\* lines 167-188: roomCode, Room.objects.get, host check
Receive(p) ==
    /\ pc[p] = "idle"
    /\ \E user \in Users, roomCode \in RequestCodes :
        IF roomCode = NoCode
        THEN Done(p, Resp(400, 0, "roomCode is required")) /\ UNCHANGED loc
        ELSE IF RoomGet(rooms, roomCode) = None
        THEN Done(p, Resp(404, 0, "room not found")) /\ UNCHANGED loc
        ELSE IF rooms[roomCode].host # user
        THEN Done(p, Resp(403, 0, "only the host")) /\ UNCHANGED loc
        ELSE /\ pc' = [pc EXCEPT ![p] = "check_ready"]
             /\ loc' = [loc EXCEPT ![p].room = roomCode]
             /\ UNCHANGED cresp
    /\ UNCHANGED <<rooms, participants, games, req, resp, prev>>

\* line 192: room.participants.exclude(status="ready").exists()
CheckReady(p) ==
    /\ pc[p] = "check_ready"
    /\ IF HasUnready(participants, loc[p].room)
       THEN Done(p, Resp(400, 0, "participants not ready"))
       ELSE pc' = [pc EXCEPT ![p] = "get_waiting_game"] /\ UNCHANGED cresp
    /\ UNCHANGED <<rooms, participants, games, req, resp, prev, loc>>

\* line 198: game = room.get_waiting_game(), the row as it is read now
GetWaitingGame(p) ==
    /\ pc[p] = "get_waiting_game"
    /\ IF WaitingGames(games, loc[p].room) = {}
       THEN Done(p, Resp(400, 0, "ValueError")) /\ UNCHANGED loc
       ELSE \E g \in WaitingGames(games, loc[p].room) :
                /\ loc' = [loc EXCEPT ![p].game = g, ![p].status = games[g].status]
                /\ pc' = [pc EXCEPT ![p] = "create_leaderboard"]
                /\ UNCHANGED cresp
    /\ UNCHANGED <<rooms, participants, games, req, resp, prev>>

\* line 199: game.create_leaderboard()
CreateLeaderboard(p) ==
    /\ pc[p] = "create_leaderboard"
    /\ games' = create_leaderboard(games, loc[p].game)
    /\ pc' = [pc EXCEPT ![p] = "save"]
    /\ UNCHANGED <<rooms, participants, req, resp, prev, loc, cresp>>

\* lines 200-207: game.status = "in_progress"; game.save(); 200
Save(p) ==
    /\ pc[p] = "save"
    /\ games' = SaveGame(games, loc[p].game, "in_progress")
    /\ loc' = [loc EXCEPT ![p].status = "in_progress"]
    /\ Done(p, Resp(200, loc[p].game, "none"))
    /\ UNCHANGED <<rooms, participants, req, resp, prev>>

ConcNext ==
    \E p \in Procs :
        \/ Receive(p)
        \/ CheckReady(p)
        \/ GetWaitingGame(p)
        \/ CreateLeaderboard(p)
        \/ Save(p)

ConcSpec == Init /\ [][ConcNext]_vars

\* ------------------------------------------------------------ properties
IsRequest == req.op \in {"CreateGame", "StartGame", "EndGame"}
ForRoom == IsRequest /\ req.roomCode \in RoomCodes
FromHost == ForRoom /\ rooms[req.roomCode].host = req.user
NonHost == ForRoom /\ rooms[req.roomCode].host # req.user
\* the request carries every field its view requires
Complete ==
    /\ req.op = "CreateGame" => req.topic /\ req.subtopics
    /\ req.op = "EndGame" => req.gameId # 0
StatusesOf(gs) == [g \in 1..Len(gs) |-> gs[g].status]
AllReady(room) ==
    \A i \in 1..Len(participants) :
        participants[i].room = room => participants[i].status = "ready"
Rank(status) ==
    CASE status = "waiting" -> 0 [] status = "in_progress" -> 1 [] status = "ended" -> 2

\* C1 as stated, for requests that carry the fields their view requires: a
\* request for a room from a user who is not its host is answered 403 and
\* leaves the game table as it was.
C1_NonHostAlways403 ==
    (NonHost /\ Complete) => resp.status = 403 /\ games = prev.games

\* C1: a request for a room from a user who is not its host never changes
\* the game table and is answered with an error: 403 when the request
\* carries its required fields and, for CreateGame, the room is active;
\* otherwise the 400 or 404 of the checks that come before the host check.
C1_NonHostRefused ==
    NonHost =>
        /\ games = prev.games
        /\ resp.status \in {400, 403, 404}
        /\ (Complete /\ (req.op = "CreateGame" => rooms[req.roomCode].status = "active"))
              => resp.status = 403
        /\ resp.status = 400 => ~Complete
        /\ resp.status = 404 =>
              req.op = "CreateGame" /\ rooms[req.roomCode].status # "active"

\* a non-host StartGame refused with 403 although the room is ready and has
\* a waiting game
C1_Witness ==
    /\ NonHost /\ req.op = "StartGame" /\ resp.status = 403
    /\ AllReady(req.roomCode)
    /\ WaitingGames(games, req.roomCode) # {}

C3_StatusForward ==
    IsRequest =>
        /\ Len(prev.games) <= Len(games)
        /\ \A g \in 1..Len(games) :
              IF g <= Len(prev.games)
              THEN /\ Rank(prev.games[g].status) <= Rank(games[g].status)
                   /\ prev.games[g].status = "ended" => games[g].status = "ended"
                   /\ (req.op = "StartGame" /\ games[g].status # prev.games[g].status)
                         => /\ prev.games[g].status = "waiting"
                            /\ games[g].status = "in_progress"
                            /\ resp.gameId = g
                   /\ req.op = "CreateGame" => games[g] = prev.games[g]
              ELSE games[g].status = "waiting"

\* a StartGame that started a waiting game of a room that also has an ended
\* game and a game in progress or ended before it
C3_Witness ==
    /\ req.op = "StartGame" /\ resp.status = 200
    /\ prev.games[resp.gameId].status = "waiting"
    /\ games[resp.gameId].status = "in_progress"
    /\ \E g \in 1..Len(games) :
          /\ g # resp.gameId
          /\ games[g].room = req.roomCode
          /\ games[g].status = "ended"

\* C4 as stated: the host's CreateGame with topic and subtopics for an active
\* room with no game in progress creates exactly one game, waiting, of that
\* room, and is answered 201 with its id.
C4_HostCreates ==
    (/\ FromHost /\ req.op = "CreateGame" /\ req.topic /\ req.subtopics
     /\ rooms[req.roomCode].status = "active"
     /\ GamesOf(prev.games, req.roomCode, "in_progress") = {})
    => /\ resp.status = 201
       /\ Len(games) = Len(prev.games) + 1
       /\ SubSeq(games, 1, Len(prev.games)) = prev.games
       /\ games[Len(games)].room = req.roomCode
       /\ games[Len(games)].status = "waiting"
       /\ resp.gameId = Len(games)

\* C5 as stated: the host's CreateGame for an active room with a game in
\* progress creates no game and is answered 200 with the id of a game of
\* the room that is in progress.
C5_HostGetsRunningGame ==
    (/\ FromHost /\ req.op = "CreateGame" /\ req.topic /\ req.subtopics
     /\ rooms[req.roomCode].status = "active"
     /\ GamesOf(prev.games, req.roomCode, "in_progress") # {})
    => /\ games = prev.games
       /\ resp.status = 200
       /\ resp.gameId \in GamesOf(prev.games, req.roomCode, "in_progress")

C8_StartedOnce ==
    (\A p \in Procs : pc[p] = "done") =>
        \A g \in 1..Len(games) :
            /\ games[g].leaderboards <= 1
            /\ Cardinality({p \in Procs : /\ cresp[p].status = 200
                                          /\ cresp[p].gameId = g
                                          /\ loc[p].game = g}) <= 1

====
